---- MODULE Spec2Model ----
(***************************************************************************)
(* Model of the weapon optimizer service (backend/app/services/optimizer.py *)
(* and the /api/optimize and /api/explore handlers of backend/app/main.py). *)
(*                                                                         *)
(* Units.  The code scales its float inputs to integers before handing     *)
(* them to the solver; the model keeps every quantity at that resolution:  *)
(*   ergonomics        tenths            (ERGO_SCALE   = 10)               *)
(*   recoil_modifier   thousandths       (SCALE        = 1000)             *)
(*   weight            grams             (WEIGHT_SCALE = 1000)             *)
(*   prices            roubles (integers in the catalog)                   *)
(* The final recoil of a result is kept times 1000 (recoil_vertical_milli  *)
(* = naked_recoil_v * (1000 + sum of modifiers)), which is exact.          *)
(* Python's None is the empty sequence, a present value v is <<v>>.        *)
(***************************************************************************)
EXTENDS Integers, Sequences, FiniteSets, TLC

VARIABLES cat, req, pc, compatibility_map, feasibility_reasons,
          solver_status, result, explore, call, server

vars == <<cat, req, pc, compatibility_map, feasibility_reasons,
          solver_status, result, explore, call, server>>

None == <<>>
Some(v) == <<v>>
IsNone(o) == o = <<>>
Val(o) == o[1]

Range(s) == {s[i] : i \in 1..Len(s)}

RECURSIVE SumOver(_, _)
SumOver(S, f) ==
  IF S = {} THEN 0
  ELSE LET e == CHOOSE e \in S : TRUE IN f[e] + SumOver(S \ {e}, f)

Min2(a, b) == IF a < b THEN a ELSE b
Max2(a, b) == IF a > b THEN a ELSE b

\* Python's int() on a quotient n/d (d > 0): truncation toward zero.
TruncDiv(n, d) == IF n >= 0 THEN n \div d ELSE -((-n) \div d)

(***************************************************************************)
(* Program constants.                                                      *)
(***************************************************************************)
SCALE == 1000
ERGO_SCALE == 10
WEIGHT_SCALE == 1000
UNPURCHASABLE_LIMIT == 100000000
NOT_AVAILABLE_PRICE == 999999999
DEFAULT_TRADER_LEVEL == 4

Traders == {"prapor", "skier", "peacekeeper", "mechanic", "jaeger"}

AllTraders(l) == [t \in Traders |-> l]

DEFAULT_TRADER_LEVELS == AllTraders(DEFAULT_TRADER_LEVEL)

(***************************************************************************)
(* Catalog records, in the shape build_item_lookup produces.               *)
(***************************************************************************)
Offer(price, source, vendor, level) ==
  [price |-> price, source |-> source, vendor_normalized |-> vendor,
   trader_level |-> level]

FleaOffer(price) == Offer(price, "fleaMarket", "flea-market", None)

TraderOffer(price, vendor, level) == Offer(price, vendor, vendor, Some(level))

Slot(id, required, allowed) ==
  [id |-> id, required |-> required, allowedItems |-> allowed]

\* extract_mod_stats: offers are sorted ascending by price, price is the
\* cheapest offer's price whatever its source.
ModStats(ergo, recoil, weight, offers, category, category_id) ==
  [ergonomics |-> ergo, recoil_modifier |-> recoil, weight |-> weight,
   offers |-> offers, price |-> IF offers = <<>> THEN 0 ELSE offers[1].price,
   min_level_flea |-> 0, capacity |-> 0, sighting_range |-> 0,
   category |-> category, category_id |-> category_id,
   naked_ergonomics |-> 0, naked_recoil_v |-> 0, naked_recoil_h |-> 0]

\* extract_gun_stats: the mod-only keys are absent from a gun's stats, and
\* every read of them is a .get with default 0 / "" / no offers.
GunStats(ergo, recoil_v, recoil_h, weight, price, sighting_range) ==
  [ergonomics |-> 0, recoil_modifier |-> 0, weight |-> weight,
   offers |-> <<>>, price |-> price,
   min_level_flea |-> 0, capacity |-> 0, sighting_range |-> sighting_range,
   category |-> "Weapon", category_id |-> "cat_weapon",
   naked_ergonomics |-> ergo, naked_recoil_v |-> recoil_v,
   naked_recoil_h |-> recoil_h]

Mod(slots, stats, conflicts) ==
  [type |-> "mod", slots |-> slots, stats |-> stats,
   conflicting_items |-> conflicts, presets |-> <<>>, all_presets |-> <<>>]

\* extract_all_presets: a preset is purchasable iff it has an offer.
Preset(id, items, offers) ==
  [id |-> id, items |-> items, offers |-> offers,
   price |-> IF offers = <<>> THEN 0 ELSE offers[1].price,
   purchasable |-> offers # <<>>]

Purchasable(ps) == SelectSeq(ps, LAMBDA p : p.purchasable)

Gun(slots, stats, all_presets) ==
  [type |-> "gun", slots |-> slots, stats |-> stats,
   conflicting_items |-> <<>>, presets |-> Purchasable(all_presets),
   all_presets |-> all_presets]

WeaponId == "W"

(***************************************************************************)
(* The catalogs (item lookups) the requests run against.  Each is a        *)
(* function from item id to its lookup record; "Z" is an id the raw        *)
(* catalog mentions and the lookup does not hold.                          *)
(***************************************************************************)
\* Two alternatives in a required slot, an optional muzzle, a one-sided
\* conflict (A lists C, C does not list A), and an unknown allowed id.
CatalogBasic ==
  [W |-> Gun(<<Slot("S1", TRUE, <<"A", "B", "Z">>), Slot("S2", FALSE, <<"C">>)>>,
             GunStats(500, 100, 50, 3000, 10000, 0), <<>>),
   A |-> Mod(<<>>, ModStats(50, -100, 100, <<TraderOffer(2000, "prapor", 1)>>,
                           "Stock", "cat_stock"), <<"C">>),
   B |-> Mod(<<>>, ModStats(100, 50, 200,
                           <<TraderOffer(3000, "skier", 2), FleaOffer(3500)>>,
                           "Stock", "cat_stock"), <<>>),
   C |-> Mod(<<>>, ModStats(30, -50, 50, <<FleaOffer(1500)>>,
                           "Muzzle", "cat_muzzle"), <<>>)]

\* Two required top-level slots sharing the item A; A carries a required
\* nested slot.
CatalogSlots ==
  [W |-> Gun(<<Slot("S1", TRUE, <<"A">>), Slot("S2", TRUE, <<"A", "B">>)>>,
             GunStats(400, 120, 60, 2800, 9000, 0), <<>>),
   A |-> Mod(<<Slot("SA", TRUE, <<"C">>)>>,
             ModStats(40, -80, 150, <<TraderOffer(2500, "prapor", 1)>>,
                      "Handguard", "cat_handguard"), <<>>),
   B |-> Mod(<<>>, ModStats(-20, 30, 120, <<FleaOffer(1200)>>,
                           "Barrel", "cat_barrel"), <<>>),
   C |-> Mod(<<>>, ModStats(10, -20, 80, <<TraderOffer(900, "skier", 1)>>,
                           "Foregrip", "cat_foregrip"), <<>>)]

\* Scenario D: the naked weapon is not purchasable, factory presets bundle
\* items; P0 has no offer at all.
CatalogPresets ==
  [W |-> Gun(<<Slot("S1", TRUE, <<"A">>), Slot("S2", FALSE, <<"B">>),
               Slot("S3", FALSE, <<"C">>)>>,
             GunStats(450, 110, 55, 3200, NOT_AVAILABLE_PRICE, 0),
             <<Preset("P0", <<"A">>, <<>>),
               Preset("P1", <<"A">>, <<TraderOffer(5000, "prapor", 2)>>),
               Preset("P2", <<"A", "B">>, <<FleaOffer(8000)>>)>>),
   A |-> Mod(<<>>, ModStats(50, -50, 300,
                           <<TraderOffer(2000, "mechanic", 2), FleaOffer(2500)>>,
                           "Stock", "cat_stock"), <<>>),
   B |-> Mod(<<>>, ModStats(30, -30, 200, <<TraderOffer(4000, "jaeger", 4)>>,
                           "Sight", "cat_sight"), <<>>),
   C |-> Mod(<<>>, ModStats(20, -10, 100, <<FleaOffer(1000)>>,
                           "Muzzle", "cat_muzzle"), <<>>)]

\* No base can be bought: the naked weapon is not purchasable and its only
\* preset has no offer.
CatalogFallback ==
  [W |-> Gun(<<Slot("S1", TRUE, <<"A">>), Slot("S2", FALSE, <<"B">>),
               Slot("S3", FALSE, <<"C">>)>>,
             GunStats(450, 110, 55, 3200, NOT_AVAILABLE_PRICE, 0),
             <<Preset("P0", <<"A", "B">>, <<>>)>>),
   A |-> Mod(<<>>, ModStats(50, -50, 300, <<TraderOffer(2000, "mechanic", 2)>>,
                           "Stock", "cat_stock"), <<>>),
   B |-> Mod(<<>>, ModStats(30, -30, 200, <<TraderOffer(4000, "jaeger", 3)>>,
                           "Sight", "cat_sight"), <<>>),
   C |-> Mod(<<>>, ModStats(20, -10, 100, <<FleaOffer(1000)>>,
                           "Muzzle", "cat_muzzle"), <<>>)]

\* A chain W -> A -> B with cycles: B is allowed in its own slot, and B and
\* C are allowed in each other's slots.
CatalogGraph ==
  [W |-> Gun(<<Slot("S1", FALSE, <<"A">>)>>,
             GunStats(480, 100, 50, 3000, 12000, 0), <<>>),
   A |-> Mod(<<Slot("SA", FALSE, <<"B">>)>>,
             ModStats(-30, 20, 250, <<TraderOffer(3000, "prapor", 1)>>,
                      "Handguard", "cat_handguard"), <<>>),
   B |-> Mod(<<Slot("SB", FALSE, <<"C", "B">>)>>,
             ModStats(40, -60, 150, <<FleaOffer(2000)>>,
                      "Mount", "cat_mount"), <<>>),
   C |-> Mod(<<Slot("SC", FALSE, <<"B">>)>>,
             ModStats(20, -40, 90, <<FleaOffer(1500)>>,
                      "Mount", "cat_mount"), <<>>)]

\* Fractional ergonomics, a naked recoil that does not divide the limits,
\* and a weapon weight (2.002 kg) whose product with WEIGHT_SCALE falls
\* short of a whole number of grams.
CatalogNumeric ==
  [W |-> Gun(<<Slot("S1", TRUE, <<"A", "B">>), Slot("S2", FALSE, <<"C">>)>>,
             GunStats(50, 83, 40, 2002, 8000, 0), <<>>),
   A |-> Mod(<<>>, ModStats(-55, -60, 399, <<TraderOffer(1000, "prapor", 1)>>,
                           "Stock", "cat_stock"), <<>>),
   B |-> Mod(<<>>, ModStats(20, 20, 100, <<FleaOffer(800)>>,
                           "Stock", "cat_stock"), <<>>),
   C |-> Mod(<<>>, ModStats(10, -30, 0, <<FleaOffer(600)>>,
                           "Muzzle", "cat_muzzle"), <<>>)]

\* extract_mod_stats, the capacity of a magazine.
Magazine(stats, capacity) ==
  [stats EXCEPT !.capacity = capacity]

\* Scenario E: a required magazine slot with a 10-round and a 30-round
\* magazine; the weapon cannot be bought naked and has no preset at all.
CatalogMagazine ==
  [W |-> Gun(<<Slot("MAG", TRUE, <<"A", "B">>), Slot("S2", FALSE, <<"C">>)>>,
             GunStats(450, 100, 50, 3000, NOT_AVAILABLE_PRICE, 0), <<>>),
   A |-> Mod(<<>>, Magazine(ModStats(10, 0, 100, <<TraderOffer(500, "prapor", 1)>>,
                                     "Magazine", "cat_magazine"), 10), <<>>),
   B |-> Mod(<<>>, Magazine(ModStats(-20, 0, 200, <<FleaOffer(1500)>>,
                                     "Magazine", "cat_magazine"), 30), <<>>),
   C |-> Mod(<<>>, ModStats(20, -40, 150, <<TraderOffer(1800, "skier", 1)>>,
                           "Muzzle", "cat_muzzle"), <<>>)]

\* Scenario F: three ergonomics tiers ({A} 40, {B} 50, {B, C} 55); the
\* tier with the least recoil is the dearest.
CatalogFrontier ==
  [W |-> Gun(<<Slot("S1", TRUE, <<"A", "B">>), Slot("S2", FALSE, <<"C">>)>>,
             GunStats(400, 100, 50, 3000, 10000, 0), <<>>),
   A |-> Mod(<<>>, ModStats(0, -100, 100, <<TraderOffer(9000, "prapor", 1)>>,
                           "Stock", "cat_stock"), <<>>),
   B |-> Mod(<<>>, ModStats(100, -50, 200, <<TraderOffer(1000, "prapor", 1)>>,
                           "Stock", "cat_stock"), <<>>),
   C |-> Mod(<<>>, ModStats(50, 20, 50, <<TraderOffer(500, "prapor", 1)>>,
                           "Muzzle", "cat_muzzle"), <<>>)]

CatalogNames ==
  {"basic", "slots", "presets", "fallback", "graph", "numeric", "magazine",
   "frontier"}

ItemLookup(c) ==
  CASE c = "basic" -> CatalogBasic
    [] c = "slots" -> CatalogSlots
    [] c = "presets" -> CatalogPresets
    [] c = "fallback" -> CatalogFallback
    [] c = "graph" -> CatalogGraph
    [] c = "numeric" -> CatalogNumeric
    [] c = "magazine" -> CatalogMagazine
    [] c = "frontier" -> CatalogFrontier

(***************************************************************************)
(* build_compatibility_map: breadth-first traversal from the weapon.       *)
(* reachable_items is kept as the sequence of its keys in insertion order  *)
(* (the order every later loop over the dict follows).                     *)
(***************************************************************************)
\* A pass over the slots that keeps and enqueues every listed id, in the
\* lookup or not.
RECURSIVE ScanSlotsUnfiltered(_, _, _, _, _, _)
ScanSlotsUnfiltered(L, owner, slots, k, st, top) ==
  IF k > Len(slots) THEN st
  ELSE LET slot == slots[k]
           kept == SelectSeq(slot.allowedItems, LAMBDA a : top => a # owner)
           enq == IF top THEN kept
                  ELSE SelectSeq(kept, LAMBDA a : a \notin st.visited)
           pairs == [i \in 1..Len(enq) |-> <<enq[i], slot.id>>]
       IN ScanSlotsUnfiltered(L, owner, slots, k + 1,
            [st EXCEPT !.queue = @ \o pairs,
                       !.slot_items = (slot.id :> kept) @@ @,
                       !.slot_owner = (slot.id :> owner) @@ @,
                       !.item_to_slots =
                          IF top THEN @
                          ELSE [@ EXCEPT ![owner] = Append(@, slot.id)]],
            top)

\* One pass over the slots of `owner`; `top` is the weapon's own pass
\* (which skips the weapon's id and enqueues without looking at visited).
RECURSIVE ScanSlots(_, _, _, _, _, _)
ScanSlots(L, owner, slots, k, st, top) ==
  IF k > Len(slots) THEN st
  ELSE LET slot == slots[k]
           kept == SelectSeq(slot.allowedItems,
                     LAMBDA a : (top => a # owner) /\ a \in DOMAIN L)
           enq == IF top THEN kept
                  ELSE SelectSeq(kept, LAMBDA a : a \notin st.visited)
           pairs == [i \in 1..Len(enq) |-> <<enq[i], slot.id>>]
       IN ScanSlots(L, owner, slots, k + 1,
            [st EXCEPT !.queue = @ \o pairs,
                       !.slot_items = (slot.id :> kept) @@ @,
                       !.slot_owner = (slot.id :> owner) @@ @,
                       !.item_to_slots =
                          IF top THEN @
                          ELSE [@ EXCEPT ![owner] = Append(@, slot.id)]],
            top)

\* Lines 441-455 with the dequeue test left out: whatever leaves the queue
\* is expanded.
TraverseStepRevisit(L, st) ==
  LET item_id == Head(st.queue)[1]
      st1 == [st EXCEPT !.queue = Tail(@), !.visited = @ \cup {item_id}]
  IN IF item_id \notin DOMAIN L THEN st1
     ELSE ScanSlots(L, item_id, L[item_id].slots, 1,
            [st1 EXCEPT !.reachable = IF item_id \in Range(@) THEN @
                                      ELSE Append(@, item_id),
                        !.expanded = Append(@, item_id),
                        !.item_to_slots = (item_id :> <<>>) @@ @],
            FALSE)

\* One pass of the while loop, lines 436-455.  reachable is a dict: an id
\* already a key keeps its place; expanded lists the ids in the order
\* their slots were scanned.
TraverseStep(L, st) ==
  LET item_id == Head(st.queue)[1]
      st0 == [st EXCEPT !.queue = Tail(@)]
  IN IF item_id \in st0.visited THEN st0
     ELSE LET st1 == [st0 EXCEPT !.visited = @ \cup {item_id}]
          IN IF item_id \notin DOMAIN L THEN st1
             ELSE ScanSlots(L, item_id, L[item_id].slots, 1,
                    [st1 EXCEPT !.reachable = IF item_id \in Range(@) THEN @
                                              ELSE Append(@, item_id),
                                !.expanded = Append(@, item_id),
                                !.item_to_slots = (item_id :> <<>>) @@ @],
                    FALSE)

RECURSIVE Traverse(_, _)
Traverse(L, st) ==
  IF st.queue = <<>> THEN st ELSE Traverse(L, TraverseStep(L, st))

\* lines 418-433: the weapon's own slots.
TraverseStart(weapon_id, L) ==
  ScanSlots(L, weapon_id, L[weapon_id].slots, 1,
    [queue |-> <<>>, visited |-> {}, reachable |-> <<>>, expanded |-> <<>>,
     slot_items |-> <<>>, slot_owner |-> <<>>, item_to_slots |-> <<>>],
    TRUE)

\* lines 457-462
CompatibilityMapOf(fin) ==
  [reachable_items |-> fin.reachable, slot_items |-> fin.slot_items,
   item_to_slots |-> fin.item_to_slots, slot_owner |-> fin.slot_owner]

build_compatibility_map(weapon_id, L) ==
  CompatibilityMapOf(Traverse(L, TraverseStart(weapon_id, L)))


(***************************************************************************)
(* get_available_price: the cheapest offer that survives the trader-level, *)
(* flea-availability and player-level rules.                               *)
(***************************************************************************)
Unavailable == [price |-> 0, source |-> "none", available |-> FALSE]

TraderLevelOf(trader_levels, vendor) ==
  IF vendor \in DOMAIN trader_levels THEN trader_levels[vendor]
  ELSE DEFAULT_TRADER_LEVEL

\* line 397: str.lower() on the vendor names the catalogs use.
Lower(vendor) == IF vendor = "Prapor" THEN "prapor" ELSE vendor

OfferSurvives(o, stats, trader_levels, flea_available, player_level) ==
  IF o.source = "fleaMarket"
  THEN /\ flea_available
       /\ (IsNone(player_level) \/ stats.min_level_flea <= Val(player_level))
  ELSE \/ IsNone(o.trader_level)
       \/ Val(o.trader_level) <=
            TraderLevelOf(trader_levels, Lower(o.vendor_normalized))

\* The first surviving offer is returned, whatever its price.
get_available_price_first(stats, trader_levels, flea_available, player_level) ==
  IF stats.offers = <<>>
  THEN IF stats.price > 0 /\ flea_available
       THEN IF ~IsNone(player_level) /\ stats.min_level_flea > Val(player_level)
            THEN Unavailable
            ELSE [price |-> stats.price, source |-> "market", available |-> TRUE]
       ELSE Unavailable
  ELSE LET ok == SelectSeq(stats.offers,
                   LAMBDA o : OfferSurvives(o, stats, trader_levels,
                                            flea_available, player_level))
       IN IF ok = <<>> THEN Unavailable
          ELSE [price |-> ok[1].price, source |-> ok[1].source,
                available |-> TRUE]

get_available_price(stats, trader_levels, flea_available, player_level) ==
  IF stats.offers = <<>>
  THEN IF stats.price > 0 /\ flea_available
       THEN IF ~IsNone(player_level) /\ stats.min_level_flea > Val(player_level)
            THEN Unavailable
            ELSE [price |-> stats.price, source |-> "market", available |-> TRUE]
       ELSE Unavailable
  ELSE LET ok == SelectSeq(stats.offers,
                   LAMBDA o : OfferSurvives(o, stats, trader_levels,
                                            flea_available, player_level))
       IN IF ok = <<>> THEN Unavailable
          ELSE LET best == CHOOSE i \in 1..Len(ok) :
                             /\ \A j \in 1..Len(ok) : ok[i].price <= ok[j].price
                             /\ \A j \in 1..(i - 1) : ok[j].price > ok[i].price
               IN [price |-> ok[best].price, source |-> ok[best].source,
                   available |-> TRUE]

PriceOf(stats, r) ==
  get_available_price(stats, r.trader_levels, r.flea_available, r.player_level)

(***************************************************************************)
(* Requests: the keyword arguments of optimize_weapon.                     *)
(***************************************************************************)
\* max_recoil_v is a float in the code: the API passes an integer, the
\* explorer a fractional target.  The model keeps it as the fraction
\* max_recoil_v / max_recoil_v_den.
DefaultRequest ==
  [max_price |-> None, min_ergonomics |-> None, max_recoil_v |-> None,
   max_recoil_sum |-> None, min_mag_capacity |-> None,
   min_sighting_range |-> None, max_weight |-> None,
   include_items |-> {}, exclude_items |-> {},
   include_categories |-> <<>>, exclude_categories |-> {},
   ergo_weight |-> 1, recoil_weight |-> 1, price_weight |-> 0,
   trader_levels |-> DEFAULT_TRADER_LEVELS, flea_available |-> TRUE,
   player_level |-> None, max_recoil_v_den |-> 1]

\* The values a request field is set to when it departs from its default.
\* max_weight is in grams, min_ergonomics / max_recoil_v are the API's
\* integers.
Settings ==
  {<<"max_price", Some(5000)>>, <<"max_price", Some(12000)>>,
   <<"min_ergonomics", Some(0)>>, <<"min_ergonomics", Some(55)>>,
   <<"min_ergonomics", Some(100)>>,
   <<"max_recoil_v", Some(78)>>, <<"max_recoil_v", Some(95)>>,
   <<"max_weight", Some(2400)>>, <<"max_weight", Some(3050)>>,
   <<"max_weight", Some(3100)>>,
   <<"include_items", {"A"}>>, <<"include_items", {"B"}>>,
   <<"include_items", {"Z"}>>, <<"include_items", {"A", "C"}>>,
   <<"min_mag_capacity", Some(30)>>,
   <<"exclude_items", {"A"}>>, <<"exclude_items", {"C"}>>,
   <<"exclude_categories", {"Stock"}>>,
   <<"exclude_categories", {"cat_stock"}>>,
   <<"ergo_weight", 0>>, <<"recoil_weight", 0>>, <<"price_weight", 1>>,
   <<"trader_levels", AllTraders(1)>>,
   <<"trader_levels", [DEFAULT_TRADER_LEVELS EXCEPT !.jaeger = 3]>>,
   <<"flea_available", FALSE>>}

\* How many fields of a request depart from the default at once.
MaxActive == 2

RECURSIVE Requests(_)
Requests(k) ==
  IF k = 0 THEN {DefaultRequest}
  ELSE LET prev == Requests(k - 1)
       IN prev \cup {[r EXCEPT ![s[1]] = s[2]] : r \in prev, s \in Settings}

(***************************************************************************)
(* _check_constraints_feasibility: the list of reasons, empty when the     *)
(* function returns None.                                                  *)
(***************************************************************************)
RECURSIVE SetToSeq(_)
SetToSeq(S) ==
  IF S = {} THEN <<>>
  ELSE LET e == CHOOSE e \in S : TRUE IN <<e>> \o SetToSeq(S \ {e})

IncludeItemReasons(r, reachable) ==
  LET missing == SelectSeq(SetToSeq(r.include_items),
                   LAMBDA i : i \notin Range(reachable))
  IN [k \in 1..Len(missing) |-> <<"not_compatible", missing[k]>>]

IncludeCategoryReasons(L, r, reachable) ==
  LET unmatched == SelectSeq(r.include_categories,
        LAMBDA group :
          /\ group # <<>>
          /\ ~\E i \in Range(reachable) :
                \/ L[i].stats.category_id \in Range(group)
                \/ L[i].stats.category \in Range(group))
  IN [k \in 1..Len(unmatched) |-> <<"no_category_items", unmatched[k]>>]

MagCapacityReasons(L, r, reachable) ==
  IF ~IsNone(r.min_mag_capacity) /\ Val(r.min_mag_capacity) # 0
     /\ ~\E i \in Range(reachable) :
            L[i].stats.capacity >= Val(r.min_mag_capacity)
  THEN <<<<"no_magazine", Val(r.min_mag_capacity)>>>>
  ELSE <<>>

SightingRangeReasons(L, weapon, r, reachable) ==
  IF ~IsNone(r.min_sighting_range) /\ Val(r.min_sighting_range) # 0
     /\ weapon.stats.sighting_range < Val(r.min_sighting_range)
     /\ ~\E i \in Range(reachable) :
            L[i].stats.sighting_range >= Val(r.min_sighting_range)
  THEN <<<<"no_sight", Val(r.min_sighting_range)>>>>
  ELSE <<>>

\* The loop of lines 549-553: `weight > 0 and weight < m or m == 0`.
RECURSIVE MinModWeight(_, _, _, _)
MinModWeight(L, reachable, k, m) ==
  IF k > Len(reachable) THEN m
  ELSE LET weight == L[reachable[k]].stats.weight
       IN MinModWeight(L, reachable, k + 1,
            IF (weight > 0 /\ weight < m) \/ m = 0 THEN weight ELSE m)

WeightReasons(L, weapon, r, reachable) ==
  IF IsNone(r.max_weight) THEN <<>>
  ELSE LET total_min_weight ==
             weapon.stats.weight + MinModWeight(L, reachable, 1, 0)
       IN IF total_min_weight > Val(r.max_weight)
          THEN <<<<"weight_exceeds", total_min_weight>>>>
          ELSE <<>>

\* Only the first cause found is reported.
check_constraints_first_cause(L, weapon, cm, r) ==
  LET all == IncludeItemReasons(r, cm.reachable_items)
               \o IncludeCategoryReasons(L, r, cm.reachable_items)
               \o MagCapacityReasons(L, r, cm.reachable_items)
               \o SightingRangeReasons(L, weapon, r, cm.reachable_items)
               \o WeightReasons(L, weapon, r, cm.reachable_items)
  IN IF all = <<>> THEN <<>> ELSE <<all[1]>>

check_constraints_feasibility(L, weapon, cm, r) ==
  IncludeItemReasons(r, cm.reachable_items)
    \o IncludeCategoryReasons(L, r, cm.reachable_items)
    \o MagCapacityReasons(L, r, cm.reachable_items)
    \o SightingRangeReasons(L, weapon, r, cm.reachable_items)
    \o WeightReasons(L, weapon, r, cm.reachable_items)


(***************************************************************************)
(* optimize_weapon, model construction (lines 591-677): the candidate      *)
(* bases, the admissible items and their prices.                           *)
(***************************************************************************)
PresetPrice(p, r) ==
  PriceOf([offers |-> p.offers, price |-> p.price, min_level_flea |-> 0], r)

\* Every listed preset is a candidate base, whatever its offers.
AllListedPresets(weapon, r) ==
  weapon.presets

\* lines 595-613: the presets with an offer that survives.
AvailablePresets(weapon, r) ==
  SelectSeq(weapon.presets, LAMBDA p : PresetPrice(p, r).available)

PresetById(ps, id) == ps[CHOOSE k \in 1..Len(ps) : ps[k].id = id]

\* lines 620-625: an item is skipped when its id is excluded or its
\* category (stats["category"], the category name) is excluded.
NotExcluded(L, r, i) ==
  /\ i \notin r.exclude_items
  /\ ~(L[i].stats.category # "" /\ L[i].stats.category \in r.exclude_categories)

\* lines 627-640: price and availability of one reachable item.
ItemPrice(L, r, i) ==
  IF L[i].stats.price > UNPURCHASABLE_LIMIT
  THEN [price |-> 0, source |-> "none", available |-> FALSE]
  ELSE PriceOf(L[i].stats, r)

\* The fallback is the last entry of the full preset list.
FallbackBaseLast(weapon) ==
  IF weapon.all_presets # <<>>
  THEN [type |-> "preset",
        id |-> weapon.all_presets[Len(weapon.all_presets)].id, price |-> 0]
  ELSE [type |-> "naked", id |-> "naked", price |-> 0]

\* lines 658-677: the base used when no base can be bought.
FallbackBase(weapon) ==
  IF weapon.all_presets # <<>>
  THEN [type |-> "preset", id |-> weapon.all_presets[1].id, price |-> 0]
  ELSE [type |-> "naked", id |-> "naked", price |-> 0]

\* lines 667-672: the items the fallback preset brings in.
FallbackItems(weapon, reach, admitted) ==
  {i \in Range(weapon.all_presets[1].items) : i \in reach /\ i \notin admitted}

BuildModel(L, weapon_id, cm, r) ==
  LET weapon == L[weapon_id]
      reach == Range(cm.reachable_items)
      avp == AvailablePresets(weapon, r)
      presetIds == {avp[k].id : k \in 1..Len(avp)}
      inPreset(i) == \E k \in 1..Len(avp) : i \in Range(avp[k].items)
      admitted == {i \in reach :
                     /\ NotExcluded(L, r, i)
                     /\ (ItemPrice(L, r, i).available \/ inPreset(i))}
      naked_gun_purchasable == weapon.stats.price < UNPURCHASABLE_LIMIT
      bases == (IF naked_gun_purchasable THEN {"naked"} ELSE {}) \cup presetIds
      fb == FallbackBase(weapon)
      fbPreset == bases = {} /\ fb.type = "preset"
      extra == IF fbPreset THEN FallbackItems(weapon, reach, admitted) ELSE {}
  IN [available_items |-> admitted \cup extra,
      item_prices |->
        [i \in admitted \cup extra |->
           IF i \in admitted THEN ItemPrice(L, r, i)
           ELSE [price |-> 0, source |-> "fallback_preset", available |-> FALSE]],
      base_vars |-> IF bases # {} THEN bases ELSE {fb.id},
      preset_items_map |->
        IF fbPreset THEN (fb.id :> Range(weapon.all_presets[1].items))
        ELSE [pid \in presetIds |-> Range(PresetById(avp, pid).items)],
      preset_prices_map |->
        IF fbPreset THEN (fb.id :> 0)
        ELSE [pid \in presetIds |-> PresetPrice(PresetById(avp, pid), r).price],
      fallback_base |-> IF bases = {} THEN Some(fb) ELSE None]

\* item_to_presets restricted to base_vars (lines 691, 701, 741).
Containing(m, i) ==
  {pid \in DOMAIN m.preset_items_map : i \in m.preset_items_map[pid]}

\* lines 747-755: the slots an item may be put in.
ValidSlots(cm, weapon_id, m, i) ==
  {s \in DOMAIN cm.slot_items :
     /\ (cm.slot_owner[s] = weapon_id \/ cm.slot_owner[s] \in m.available_items)
     /\ i \in Range(cm.slot_items[s])}

\* lines 757-764
NeedsPlacement(cm, weapon_id, m, i) ==
  Cardinality(ValidSlots(cm, weapon_id, m, i)) > 1


(***************************************************************************)
(* The constraints of the CP-SAT model.  A candidate assignment is a base  *)
(* b (the one base variable that is 1), the set X of items with x = 1 and  *)
(* a placement pl of the selected items that have placed_in variables.     *)
(* ctx = [L, w, cm, r, m]: lookup, weapon id, compatibility map, request,  *)
(* and the record BuildModel returns.                                      *)
(***************************************************************************)
Valid(ctx, i) == ValidSlots(ctx.cm, ctx.w, ctx.m, i)

Needing(ctx) ==
  {i \in ctx.m.available_items : NeedsPlacement(ctx.cm, ctx.w, ctx.m, i)}

\* An item with no available offer of its own only needs some candidate
\* preset to contain it, chosen or not.
PresetOnlyAnyPreset(ctx, b, X) ==
  \A i \in X : ~ctx.m.item_prices[i].available => Containing(ctx.m, i) # {}

\* lines 689-696 and 738-745: an item with no available offer of its own
\* needs a selected preset that contains it.
PresetOnlyOk(ctx, b, X) ==
  \A i \in X : ~ctx.m.item_prices[i].available => b \in Containing(ctx.m, i)

\* lines 698-709: buy[i] = 1 iff i is selected and not in the chosen preset.
Buy(ctx, b, X) == {i \in X : b \notin Containing(ctx.m, i)}

\* lines 715-720
IncludeItemsOk(ctx, X) ==
  \A q \in ctx.r.include_items : q \in ctx.m.available_items /\ q \in X

\* lines 722-736
IncludeCategoriesOk(ctx, X) ==
  \A k \in 1..Len(ctx.r.include_categories) :
    \E i \in X : \/ ctx.L[i].stats.category_id \in Range(ctx.r.include_categories[k])
                 \/ ctx.L[i].stats.category \in Range(ctx.r.include_categories[k])

\* lines 766-768 and 793-803: a selected item with placed_in variables sits
\* in exactly one of its valid slots, whose owner is the weapon or selected.
PlacedOk(ctx, X, pl) ==
  \A i \in DOMAIN pl :
    /\ pl[i] \in Valid(ctx, i)
    /\ (ctx.cm.slot_owner[pl[i]] = ctx.w \/ ctx.cm.slot_owner[pl[i]] \in X)

\* At most one placed_in variable per slot; the items with a single valid
\* slot are not counted.
SlotCapacityPlacedOnly(ctx, X, pl) ==
  \A s \in DOMAIN ctx.cm.slot_items :
    Cardinality({i \in DOMAIN pl : pl[i] = s}) <= 1

\* lines 770-782: at most one placement per slot.
SlotCapacityOk(ctx, X, pl) ==
  \A s \in DOMAIN ctx.cm.slot_items :
    Cardinality({i \in DOMAIN pl : pl[i] = s})
      + Cardinality({i \in X \ DOMAIN pl : s \in Valid(ctx, i)}) <= 1

\* lines 784-792 and 804-817: no valid slot, no selection; a single-slot
\* item outside the weapon's own slots needs its owner.
ParentOk(ctx, X) ==
  \A i \in X :
    /\ Valid(ctx, i) # {}
    /\ (i \notin Needing(ctx)
          /\ ~(\E s \in Valid(ctx, i) : ctx.cm.slot_owner[s] = ctx.w))
       => \E s \in Valid(ctx, i) : ctx.cm.slot_owner[s] \in X

PlacementExists(ctx, X) ==
  \E pl \in [X \cap Needing(ctx) -> DOMAIN ctx.cm.slot_items] :
    PlacedOk(ctx, X, pl) /\ SlotCapacityOk(ctx, X, pl)

\* A conflict constraint only where the partner lists the item back.
ConflictsOkMutualOnly(ctx, X) ==
  \A i \in X :
    \A c \in Range(ctx.L[i].conflicting_items) :
      (c \in ctx.m.available_items /\ i \in Range(ctx.L[c].conflicting_items))
        => c \notin X

\* lines 819-829: x[i] + x[c] <= 1 for every c in i's conflict list.
ConflictsOk(ctx, X) ==
  \A i \in X :
    \A c \in Range(ctx.L[i].conflicting_items) :
      c \in ctx.m.available_items => c \notin X

\* lines 831-836: a required slot of the weapon with admissible items.
RequiredTopOk(ctx, X) ==
  \A k \in 1..Len(ctx.L[ctx.w].slots) :
    LET slot == ctx.L[ctx.w].slots[k]
        items_in_slot == Range(ctx.cm.slot_items[slot.id])
                           \cap ctx.m.available_items
    IN (slot.required /\ items_in_slot # {}) => items_in_slot \cap X # {}

\* lines 838-846: a required slot of an item, enforced when the item is
\* selected.
RequiredNestedOk(ctx, X) ==
  \A owner \in DOMAIN ctx.cm.item_to_slots \cap X :
    \A k \in 1..Len(ctx.L[owner].slots) :
      LET slot == ctx.L[owner].slots[k]
          items_in_slot == Range(ctx.cm.slot_items[slot.id])
                             \cap ctx.m.available_items
      IN (slot.required /\ items_in_slot # {}) => items_in_slot \cap X # {}

\* lines 848-864 (get_price_terms): the price the model charges.
NakedGunPrice(ctx) ==
  IF ~IsNone(ctx.m.fallback_base) /\ Val(ctx.m.fallback_base).type = "naked"
  THEN 0 ELSE ctx.L[ctx.w].stats.price

BasePriceTerm(ctx, b) ==
  IF b = "naked" THEN NakedGunPrice(ctx) ELSE ctx.m.preset_prices_map[b]

ModelPrice(ctx, b, X) ==
  BasePriceTerm(ctx, b)
    + SumOver(Buy(ctx, b, X), [i \in ctx.m.available_items |->
                                 ctx.m.item_prices[i].price])

HasPriceTerms(ctx) ==
  \/ "naked" \in ctx.m.base_vars
  \/ \E pid \in DOMAIN ctx.m.preset_prices_map : ctx.m.preset_prices_map[pid] > 0
  \/ \E i \in ctx.m.available_items : ctx.m.item_prices[i].price > 0

\* lines 866-869
BudgetOk(ctx, b, X) ==
  \/ IsNone(ctx.r.max_price)
  \/ ~HasPriceTerms(ctx)
  \/ ModelPrice(ctx, b, X) <= Val(ctx.r.max_price)

\* lines 871-888: ergonomics in tenths, its integer part (division
\* truncating toward zero) and the capped value of the objective.
TotalErgoScaled(ctx, X) ==
  ctx.L[ctx.w].stats.naked_ergonomics
    + SumOver(X, [i \in ctx.m.available_items |-> ctx.L[i].stats.ergonomics])

TotalErgo(ctx, X) == TruncDiv(TotalErgoScaled(ctx, X), ERGO_SCALE)

CappedErgo(ctx, X) == Max2(0, Min2(100, TotalErgo(ctx, X)))

\* lines 890-897
TotalRecoil(ctx, X) ==
  SumOver(X, [i \in ctx.m.available_items |-> ctx.L[i].stats.recoil_modifier])

\* The declared domains of total_ergo_scaled and total_recoil.
DomainsOk(ctx, X) ==
  /\ TotalErgoScaled(ctx, X) >= -2000 /\ TotalErgoScaled(ctx, X) <= 3000
  /\ TotalRecoil(ctx, X) >= -1000 /\ TotalRecoil(ctx, X) <= 500

\* lines 899-900
MinErgonomicsOk(ctx, X) ==
  IsNone(ctx.r.min_ergonomics)
    \/ TotalErgo(ctx, X) >= Val(ctx.r.min_ergonomics)

\* The pairs <<limit, naked>> (limit at most 130, naked one of the catalogs'
\* naked_recoil_v) whose double SCALE * (limit / naked - 1) falls just
\* short of the exact integer, so that int() yields one less in magnitude:
\* int(1000 * (78 / 100 - 1)) is -219.
ShortQuotients ==
  {<<7, 100>>, <<32, 100>>, <<33, 100>>, <<34, 100>>, <<54, 100>>,
   <<55, 100>>, <<56, 100>>, <<66, 100>>, <<67, 100>>, <<68, 100>>,
   <<77, 100>>, <<78, 100>>, <<79, 100>>, <<80, 100>>, <<81, 100>>,
   <<89, 100>>, <<90, 100>>, <<91, 100>>, <<92, 100>>, <<93, 100>>,
   <<113, 100>>, <<114, 100>>, <<115, 100>>, <<116, 100>>, <<117, 100>>,
   <<118, 100>>, <<119, 100>>, <<120, 100>>, <<121, 100>>, <<122, 100>>,
   <<123, 100>>, <<88, 110>>, <<99, 110>>, <<66, 120>>, <<81, 120>>,
   <<93, 120>>, <<96, 120>>, <<108, 120>>, <<111, 120>>, <<123, 120>>,
   <<129, 120>>}

\* line 904: int(SCALE * (max_recoil_v / naked_recoil_v - 1)) for an
\* integer-valued limit.
MaxRecoilModifier(limit, naked) ==
  LET exact == TruncDiv(SCALE * (limit - naked), naked)
  IN IF <<limit, naked>> \in ShortQuotients
     THEN (IF exact < 0 THEN exact + 1 ELSE exact - 1)
     ELSE exact

\* line 904 for a fractional limit num / den, in exact arithmetic.
MaxRecoilModifierFrac(num, den, naked) ==
  TruncDiv(SCALE * (num - naked * den), naked * den)

\* lines 902-905
MaxRecoilVOk(ctx, X) ==
  LET naked == ctx.L[ctx.w].stats.naked_recoil_v
  IN \/ IsNone(ctx.r.max_recoil_v)
     \/ TotalRecoil(ctx, X) <=
          (IF ctx.r.max_recoil_v_den = 1
           THEN MaxRecoilModifier(Val(ctx.r.max_recoil_v), naked)
           ELSE MaxRecoilModifierFrac(Val(ctx.r.max_recoil_v),
                                      ctx.r.max_recoil_v_den, naked))

\* lines 907-913
MaxRecoilSumOk(ctx, X) ==
  LET naked_sum == ctx.L[ctx.w].stats.naked_recoil_v
                     + ctx.L[ctx.w].stats.naked_recoil_h
  IN \/ IsNone(ctx.r.max_recoil_sum)
     \/ naked_sum <= 0
     \/ TotalRecoil(ctx, X) <=
          MaxRecoilModifier(Val(ctx.r.max_recoil_sum), naked_sum)

\* lines 915-926
\* Any selected magazine satisfies the capacity constraint.
MagCapacityAny(ctx, X) ==
  IsNone(ctx.r.min_mag_capacity)
    \/ \E i \in X : ctx.L[i].stats.capacity > 0

MagCapacityOk(ctx, X) ==
  IsNone(ctx.r.min_mag_capacity)
    \/ \E i \in X : ctx.L[i].stats.capacity >= Val(ctx.r.min_mag_capacity)

\* lines 928-941
SightingRangeOk(ctx, X) ==
  \/ IsNone(ctx.r.min_sighting_range)
  \/ ctx.L[ctx.w].stats.sighting_range >= Val(ctx.r.min_sighting_range)
  \/ \E i \in X : ctx.L[i].stats.sighting_range >= Val(ctx.r.min_sighting_range)

\* The whole-gram weights below 4 kg for which the double w * 1000 falls
\* just under the whole number (2.002 * 1000 = 2001.9999999999998), so
\* that int() of lines 945, 946 and 951 loses a gram.
ShortProducts ==
  {1001, 1003, 1005, 1007, 1009, 1011, 1013, 1015, 1017, 1019, 1021, 1023,
   2002, 2006, 2010, 2014, 2018, 2022, 2026, 2030, 2034, 2038, 2042, 2046}

\* int(w * WEIGHT_SCALE) for a weight of g grams, g < 4000.
ToGrams(g) ==
  IF g \in ShortProducts THEN g - 1 ELSE g

\* base_weight_g + sum(weight_terms) of line 954.
TotalWeight(ctx, X) ==
  ToGrams(ctx.L[ctx.w].stats.weight)
    + SumOver(X, [i \in ctx.m.available_items |->
                    ToGrams(ctx.L[i].stats.weight)])

\* lines 943-954: the constraint exists only when some admissible item has
\* a positive weight.
WeightOk(ctx, X) ==
  \/ IsNone(ctx.r.max_weight)
  \/ ~\E i \in ctx.m.available_items : ToGrams(ctx.L[i].stats.weight) > 0
  \/ TotalWeight(ctx, X) <= ToGrams(Val(ctx.r.max_weight))

\* lines 956-975
Objective(ctx, b, X) ==
  ctx.r.ergo_weight * SCALE * CappedErgo(ctx, X)
    - ctx.r.recoil_weight * SCALE * TotalRecoil(ctx, X)
    - (IF ctx.r.price_weight > 0
       THEN ctx.r.price_weight * ModelPrice(ctx, b, X) ELSE 0)

Satisfies(ctx, b, X) ==
  /\ PresetOnlyOk(ctx, b, X)
  /\ IncludeItemsOk(ctx, X)
  /\ IncludeCategoriesOk(ctx, X)
  /\ ParentOk(ctx, X)
  /\ ConflictsOk(ctx, X)
  /\ RequiredTopOk(ctx, X)
  /\ RequiredNestedOk(ctx, X)
  /\ BudgetOk(ctx, b, X)
  /\ DomainsOk(ctx, X)
  /\ MinErgonomicsOk(ctx, X)
  /\ MaxRecoilVOk(ctx, X)
  /\ MaxRecoilSumOk(ctx, X)
  /\ MagCapacityOk(ctx, X)
  /\ SightingRangeOk(ctx, X)
  /\ WeightOk(ctx, X)
  /\ PlacementExists(ctx, X)

Solutions(ctx) ==
  {sol \in [base : ctx.m.base_vars, x : SUBSET ctx.m.available_items] :
     Satisfies(ctx, sol.base, sol.x)}

Optimal(ctx, sols) ==
  {sol \in sols :
     \A other \in sols :
       Objective(ctx, other.base, other.x) <= Objective(ctx, sol.base, sol.x)}


(***************************************************************************)
(* Decoding the solver's assignment (lines 981-1092).                      *)
(***************************************************************************)
\* lines 464-489.  Ergonomics in tenths, weight in grams, the recoil
\* figures times 1000; total_price adds stats["price"] of every selected
\* item.
calculate_total_stats(weapon_stats, selected_mods, L) ==
  LET total_recoil_mod ==
        SumOver(selected_mods, [i \in DOMAIN L |-> L[i].stats.recoil_modifier])
  IN [ergonomics |-> weapon_stats.naked_ergonomics
        + SumOver(selected_mods, [i \in DOMAIN L |-> L[i].stats.ergonomics]),
      recoil_vertical |-> weapon_stats.naked_recoil_v * (SCALE + total_recoil_mod),
      recoil_horizontal |-> weapon_stats.naked_recoil_h * (SCALE + total_recoil_mod),
      recoil_multiplier |-> SCALE + total_recoil_mod,
      total_price |->
        SumOver(selected_mods, [i \in DOMAIN L |-> L[i].stats.price]),
      total_weight |-> weapon_stats.weight
        + SumOver(selected_mods, [i \in DOMAIN L |-> L[i].stats.weight])]

\* lines 988-1032
SelectedPreset(ctx, b) ==
  IF b = "naked" THEN None
  ELSE Some([id |-> b, price |-> ctx.m.preset_prices_map[b],
             items |-> ctx.m.preset_items_map[b]])

\* lines 1073-1080
BasePrice(ctx, b) ==
  IF b # "naked" THEN ctx.m.preset_prices_map[b]
  ELSE NakedGunPrice(ctx)

\* Every solution the solver returns is labelled optimal.
SuccessResultOptimal(ctx, sol, status_str) ==
  LET stats == calculate_total_stats(ctx.L[ctx.w].stats, sol.x, ctx.L)
  IN [status |-> "optimal",
      reason |-> <<>>,
      selected_items |-> sol.x,
      selected_preset |-> SelectedPreset(ctx, sol.base),
      fallback_base |-> ctx.m.fallback_base,
      objective_value |-> Objective(ctx, sol.base, sol.x),
      final_stats |->
        Some([stats EXCEPT !.total_price = @ + BasePrice(ctx, sol.base)])]

SuccessResult(ctx, sol, status_str) ==
  LET stats == calculate_total_stats(ctx.L[ctx.w].stats, sol.x, ctx.L)
  IN [status |-> status_str,
      reason |-> <<>>,
      selected_items |-> sol.x,
      selected_preset |-> SelectedPreset(ctx, sol.base),
      fallback_base |-> ctx.m.fallback_base,
      objective_value |-> Objective(ctx, sol.base, sol.x),
      final_stats |->
        Some([stats EXCEPT !.total_price = @ + BasePrice(ctx, sol.base)])]

\* lines 583-589 and 1093-1101
InfeasibleResult(reason) ==
  [status |-> "infeasible", reason |-> reason, selected_items |-> {},
   selected_preset |-> None, fallback_base |-> None, objective_value |-> 0,
   final_stats |-> None]

(***************************************************************************)
(* The state machine: one /api/optimize request.                           *)
(***************************************************************************)
L == ItemLookup(cat)

Ctx ==
  [L |-> L, w |-> WeaponId, cm |-> compatibility_map, r |-> req,
   m |-> BuildModel(L, WeaponId, compatibility_map, req)]

Init ==
  /\ cat \in CatalogNames
  /\ req \in Requests(MaxActive)
  /\ pc = "request"
  /\ compatibility_map = None
  /\ feasibility_reasons = <<>>
  /\ solver_status = "NOT_RUN"
  /\ result = None
  /\ explore = None
  /\ call = None
  /\ server = None

\* main.py run_optimization, lines 229-237: get or build the map.
GetCompatMap ==
  /\ pc = "request"
  /\ compatibility_map' = build_compatibility_map(WeaponId, L)
  /\ pc' = "precheck"
  /\ UNCHANGED <<cat, req, feasibility_reasons, solver_status, result, explore, call,
                 server>>

\* optimize_weapon, lines 575-589.
CheckFeasibility ==
  /\ pc = "precheck"
  /\ LET reasons == check_constraints_feasibility(L, L[WeaponId],
                                                  compatibility_map, req)
     IN /\ feasibility_reasons' = reasons
        /\ IF reasons # <<>>
           THEN result' = InfeasibleResult(reasons) /\ pc' = "done"
           ELSE result' = result /\ pc' = "solve"
  /\ UNCHANGED <<cat, req, compatibility_map, solver_status, explore, call,
                 server>>

\* optimize_weapon, lines 591-1101: build the model, run the solver with
\* its 120 s limit, decode.  OPTIMAL returns a maximiser, FEASIBLE (the
\* limit hit before optimality was proved) any solution, INFEASIBLE needs
\* an unsatisfiable model, UNKNOWN is the limit hit before any solution.
Solve ==
  /\ pc = "solve"
  /\ LET ctx == Ctx
         sols == Solutions(ctx)
         best == Optimal(ctx, sols)
     IN \E st \in {"OPTIMAL", "FEASIBLE", "INFEASIBLE", "UNKNOWN"} :
          /\ solver_status' = st
          /\ CASE st = "OPTIMAL" ->
                    \E sol \in best : result' = SuccessResult(ctx, sol, "optimal")
               [] st = "FEASIBLE" ->
                    \E sol \in sols : result' = SuccessResult(ctx, sol, "feasible")
               [] st = "INFEASIBLE" ->
                    /\ sols = {}
                    /\ result' = InfeasibleResult(<<<<"no_valid_configuration">>>>)
               [] st = "UNKNOWN" ->
                    result' = InfeasibleResult(<<<<"no_valid_configuration">>>>)
  /\ pc' = "done"
  /\ UNCHANGED <<cat, req, compatibility_map, feasibility_reasons, explore, call,
                 server>>

Next == GetCompatMap \/ CheckFeasibility \/ Solve

Spec == Init /\ [][Next]_vars

(***************************************************************************)
(* explore_pareto: one /api/explore request.                               *)
(*                                                                         *)
(* The ergonomics range is in whole points (the code takes int() of the    *)
(* float), the recoil range times 1000.  Sums and quotients of the range   *)
(* are exact here; the code computes them in doubles.                      *)
(***************************************************************************)
\* lines 1140-1142
RECOIL_WEIGHTS == [ergo_weight |-> 0, recoil_weight |-> 1, price_weight |-> 0]
ERGO_WEIGHTS == [ergo_weight |-> 1, recoil_weight |-> 0, price_weight |-> 0]
PRICE_WEIGHTS == [ergo_weight |-> 0, recoil_weight |-> 0, price_weight |-> 1]

\* optimize_weapon as one call (lines 560-1101): every result it can
\* return for the request r.
optimize_weapon(Lk, cm, r) ==
  LET reasons == check_constraints_feasibility(Lk, Lk[WeaponId], cm, r)
      ctx == [L |-> Lk, w |-> WeaponId, cm |-> cm, r |-> r,
              m |-> BuildModel(Lk, WeaponId, cm, r)]
      sols == Solutions(ctx)
  IN IF reasons # <<>> THEN {InfeasibleResult(reasons)}
     ELSE {SuccessResult(ctx, sol, "optimal") : sol \in Optimal(ctx, sols)}
            \cup {SuccessResult(ctx, sol, "feasible") : sol \in sols}
            \cup {InfeasibleResult(<<<<"no_valid_configuration">>>>)}

\* lines 1126-1138 and 1144-1148: constraint_kwargs carries every field of
\* the request but max_price, min_ergonomics and max_recoil_v; those three
\* are what the call passes, None when it leaves them out.
get_result(weights, max_price, min_ergonomics, max_recoil_v, den) ==
  optimize_weapon(L, compatibility_map,
    [req EXCEPT !.ergo_weight = weights.ergo_weight,
                !.recoil_weight = weights.recoil_weight,
                !.price_weight = weights.price_weight,
                !.max_price = max_price,
                !.min_ergonomics = min_ergonomics,
                !.max_recoil_v = max_recoil_v,
                !.max_recoil_v_den = den])

\* int(stats["ergonomics"]), ergonomics being kept in tenths.
IntErgo(stats) == TruncDiv(stats.ergonomics, ERGO_SCALE)

\* round(x, 1) of a value kept times 1000, in tenths; a tie goes to the
\* even tenth.
RoundTenths(m) ==
  LET q == m \div 100
      rem == m % 100
  IN IF rem > 50 \/ (rem = 50 /\ q % 2 = 1) THEN q + 1 ELSE q

\* lines 1246-1256: ergo in points, recoil_pct / recoil_v / recoil_h in
\* tenths.
build_frontier_point(stats, res) ==
  [ergo |-> IntErgo(stats),
   recoil_pct |-> stats.recoil_multiplier - SCALE,
   recoil_v |-> RoundTenths(stats.recoil_vertical),
   recoil_h |-> RoundTenths(stats.recoil_horizontal),
   price |-> stats.total_price,
   selected_items |-> res.selected_items,
   selected_preset |-> res.selected_preset,
   status |-> res.status]

\* lines 1240: the deduplication key.
PointKey(point) == <<point.ergo, point.recoil_v, point.price>>

\* lines 1237-1244
RECURSIVE unique_frontier(_)
unique_frontier(frontier) ==
  IF frontier = <<>> THEN <<>>
  ELSE LET n == Len(frontier)
           front == unique_frontier(SubSeq(frontier, 1, n - 1))
       IN IF \E k \in 1..Len(front) : PointKey(front[k]) = PointKey(frontier[n])
          THEN front
          ELSE Append(front, frontier[n])

\* The weights of the endpoint runs and of the sweep, per mode.
LowWeights(ignore) == IF ignore = "recoil" THEN PRICE_WEIGHTS ELSE RECOIL_WEIGHTS
HighWeights(ignore) == IF ignore = "ergo" THEN PRICE_WEIGHTS ELSE ERGO_WEIGHTS
SweepWeights(ignore) == IF ignore = "price" THEN RECOIL_WEIGHTS ELSE PRICE_WEIGHTS

\* lines 1159-1160, 1186-1187, 1213-1214: an endpoint run passes max_price
\* and, of min_ergonomics and max_recoil_v, the one that is not swept.
EndpointResults(ignore, weights) ==
  IF ignore = "ergo"
  THEN get_result(weights, req.max_price, req.min_ergonomics, None, 1)
  ELSE get_result(weights, req.max_price, None, req.max_recoil_v, 1)

\* lines 1163-1175 (and 1190-1202): the ergonomics range.
ErgoRange(result_low, result_high) ==
  LET low == IntErgo(Val(result_low.final_stats))
      high == IF result_high.status # "infeasible"
              THEN IntErgo(Val(result_high.final_stats)) ELSE 100
      raised == IF ~IsNone(req.min_ergonomics)
                THEN Max2(low, Val(req.min_ergonomics)) ELSE low
      range_min == Max2(0, raised)
      range_max == Min2(100, high)
  IN [range_min |-> range_min,
      range_max |-> IF range_max <= range_min THEN range_min + 1
                    ELSE range_max]

\* lines 1217-1227: the vertical recoil range, times 1000.
RecoilRange(result_low, result_high) ==
  LET range_min == Val(result_low.final_stats).recoil_vertical
      high == IF result_high.status # "infeasible"
              THEN Val(result_high.final_stats).recoil_vertical
              ELSE L[WeaponId].stats.naked_recoil_v * SCALE
      range_max == IF ~IsNone(req.max_recoil_v)
                   THEN Min2(high, Val(req.max_recoil_v) * SCALE) ELSE high
  IN [range_min |-> range_min,
      range_max |-> IF range_max <= range_min THEN range_min + SCALE
                    ELSE range_max]

\* lines 1176 and 1179 (1203 and 1206): int(range_min + i * step_size).
ErgoTarget(e, i) ==
  IF e.steps > 1
  THEN TruncDiv(e.range_min * (e.steps - 1) + i * (e.range_max - e.range_min),
                e.steps - 1)
  ELSE e.range_min

\* lines 1228 and 1231: range_min + i * step_size as the fraction
\* num / den, an integral target as num / 1.
RecoilTarget(e, i) ==
  LET den == IF e.steps > 1 THEN SCALE * (e.steps - 1) ELSE SCALE
      num == IF e.steps > 1
             THEN e.range_min * (e.steps - 1) + i * (e.range_max - e.range_min)
             ELSE e.range_min
  IN IF num % den = 0 THEN [num |-> num \div den, den |-> 1]
     ELSE [num |-> num, den |-> den]

\* lines 1180, 1207, 1232: the run of sweep step i.
\* The target of sweep step i as a fraction (an ergonomics target is
\* integral).
SweepTarget(e, i) ==
  IF e.ignore = "ergo" THEN RecoilTarget(e, i)
  ELSE [num |-> ErgoTarget(e, i), den |-> 1]

SweepResults(e, i) ==
  LET t == SweepTarget(e, i)
  IN IF e.ignore = "ergo"
     THEN get_result(PRICE_WEIGHTS, req.max_price, req.min_ergonomics,
                     Some(t.num), t.den)
     ELSE get_result(SweepWeights(e.ignore), req.max_price,
                     Some(t.num), req.max_recoil_v, 1)

Modes == {"price", "recoil", "ergo", "other"}

\* The most sweep steps a request asks for.
MaxSteps == 3

\* The request fields /api/explore passes on (the weights are not among
\* them): the default request with at most one constraint set.
ExploreRequests ==
  {DefaultRequest} \cup
    {[DefaultRequest EXCEPT ![s[1]] = s[2]] :
       s \in {t \in Settings :
                t[1] \notin {"ergo_weight", "recoil_weight", "price_weight"}}}

\* The catalogs the explorer is run against.
ExploreCatalogs == {"basic", "frontier"}

InitExplore ==
  /\ cat \in ExploreCatalogs
  /\ req \in ExploreRequests
  /\ pc = "explore_request"
  /\ compatibility_map = None
  /\ feasibility_reasons = <<>>
  /\ solver_status = "NOT_RUN"
  /\ result = None
  /\ call = None
  /\ server = None
  /\ \E ignore \in Modes, steps \in 1..MaxSteps :
       explore = [ignore |-> ignore, steps |-> steps, range_min |-> 0,
                  range_max |-> 0, i |-> 0, target |-> None,
                  frontier |-> <<>>, returned |-> None]

\* main.py run_exploration, lines 279-283: get or build the map.
ExploreGetCompatMap ==
  /\ pc = "explore_request"
  /\ compatibility_map' = build_compatibility_map(WeaponId, L)
  /\ pc' = "endpoints"
  /\ UNCHANGED <<cat, req, feasibility_reasons, solver_status, result, explore, call,
                 server>>

\* explore_pareto up to the sweep (lines 1158-1176, 1185-1203, 1212-1228);
\* a mode that is none of the three falls through to the empty frontier.
ExploreEndpoints ==
  /\ pc = "endpoints"
  /\ IF explore.ignore = "other"
     THEN /\ explore' = [explore EXCEPT !.returned = Some(<<>>)]
          /\ pc' = "explore_done"
     ELSE \E result_low \in EndpointResults(explore.ignore,
                                            LowWeights(explore.ignore)),
             result_high \in EndpointResults(explore.ignore,
                                             HighWeights(explore.ignore)) :
            IF result_low.status = "infeasible"
            THEN /\ explore' = [explore EXCEPT !.returned = Some(<<>>)]
                 /\ pc' = "explore_done"
            ELSE LET range == IF explore.ignore = "ergo"
                              THEN RecoilRange(result_low, result_high)
                              ELSE ErgoRange(result_low, result_high)
                 IN /\ explore' =
                         [explore EXCEPT
                            !.range_min = range.range_min,
                            !.range_max = range.range_max]
                    /\ pc' = "sweep"
  /\ UNCHANGED <<cat, req, compatibility_map, feasibility_reasons,
                 solver_status, result,
                 call, server>>

\* One pass of the sweep loop (lines 1178-1183, 1205-1210, 1230-1235);
\* the last pass runs on into the deduplication and the return (lines
\* 1237-1244).
ExploreStep ==
  /\ pc = "sweep"
  /\ \E res \in SweepResults(explore, explore.i) :
       LET frontier == IF res.status # "infeasible"
                       THEN Append(explore.frontier,
                              build_frontier_point(Val(res.final_stats), res))
                       ELSE explore.frontier
           last == explore.i + 1 = explore.steps
       IN /\ explore' =
               [explore EXCEPT
                  !.i = @ + 1,
                  !.target = Some(SweepTarget(explore, explore.i)),
                  !.frontier = frontier,
                  !.returned = IF last THEN Some(unique_frontier(frontier))
                               ELSE @]
          /\ pc' = IF last THEN "explore_done" ELSE "sweep"
  /\ UNCHANGED <<cat, req, compatibility_map, feasibility_reasons,
                 solver_status, result,
                 call, server>>

NextExplore == ExploreGetCompatMap \/ ExploreEndpoints \/ ExploreStep

SpecExplore == InitExplore /\ [][NextExplore]_vars

(***************************************************************************)
(* build_compatibility_map on its own: the lookups are drawn from the      *)
(* graphs over the weapon W and the items A and B, each with one slot, and *)
(* the id Z that the lookup does not hold.  The while loop is taken one    *)
(* pass at a time.                                                         *)
(***************************************************************************)
GraphIds == {"W", "A", "B", "Z"}

\* The longest allowedItems list of W's and of A's slot.
MaxAllowed == 2

\* The longest allowedItems list of B's slot.
MaxAllowedLeaf == 1

AllowedLists(n) == UNION {[1..k -> GraphIds] : k \in 0..n}

PlainStats == ModStats(0, 0, 0, <<>>, "Mod", "cat_mod")

GraphLookup(w, a, b) ==
  [W |-> Gun(<<Slot("S1", FALSE, w)>>, GunStats(0, 0, 0, 0, 0, 0), <<>>),
   A |-> Mod(<<Slot("SA", FALSE, a)>>, PlainStats, <<>>),
   B |-> Mod(<<Slot("SB", FALSE, b)>>, PlainStats, <<>>)]

CallLookup == GraphLookup(call.w, call.a, call.b)

InitGraph ==
  /\ cat = "graph"
  /\ req = DefaultRequest
  /\ pc = "graph_call"
  /\ compatibility_map = None
  /\ feasibility_reasons = <<>>
  /\ solver_status = "NOT_RUN"
  /\ result = None
  /\ explore = None
  /\ server = None
  /\ \E w \in AllowedLists(MaxAllowed), a \in AllowedLists(MaxAllowed),
        b \in AllowedLists(MaxAllowedLeaf) :
       call = [w |-> w, a |-> a, b |-> b, st |-> None]

\* lines 415-434: the weapon's own slots fill the queue.
GraphStart ==
  /\ pc = "graph_call"
  /\ call' = [call EXCEPT !.st = Some(TraverseStart(WeaponId, CallLookup))]
  /\ pc' = "graph_loop"
  /\ UNCHANGED <<cat, req, compatibility_map, feasibility_reasons,
                 solver_status, result, explore, server>>

\* lines 435-455: one pass of the while loop.
GraphStep ==
  /\ pc = "graph_loop"
  /\ Val(call.st).queue # <<>>
  /\ call' = [call EXCEPT !.st = Some(TraverseStep(CallLookup, Val(call.st)))]
  /\ UNCHANGED <<cat, req, pc, compatibility_map, feasibility_reasons,
                 solver_status, result, explore, server>>

\* lines 435 and 457-462: the queue is empty, the map is returned.
GraphReturn ==
  /\ pc = "graph_loop"
  /\ Val(call.st).queue = <<>>
  /\ compatibility_map' = CompatibilityMapOf(Val(call.st))
  /\ pc' = "graph_done"
  /\ UNCHANGED <<cat, req, feasibility_reasons, solver_status, result,
                 explore, call, server>>

NextGraph == GraphStart \/ GraphStep \/ GraphReturn

SpecGraph == InitGraph /\ [][NextGraph]_vars

\* The function runs to its return: the loop is a sequential program that
\* is never suspended.
SpecGraphLive == SpecGraph /\ WF_vars(NextGraph)

(***************************************************************************)
(* get_available_price on its own: the stats, trader levels, flea          *)
(* availability and player level are drawn from small sets.                *)
(***************************************************************************)
\* The offers a stats record is made of: flea offers, and offers of a
\* trader the levels know (spelt with a capital) and of one they do not.
PriceOffers ==
  {FleaOffer(p) : p \in {900, 1500}}
    \cup {TraderOffer(p, v, l) : p \in {1000, 2000}, v \in {"Prapor", "ref"},
                                 l \in {1, 3}}

\* The longest offers list.
MaxOffers == 2

OfferLists == UNION {[1..k -> PriceOffers] : k \in 0..MaxOffers}

\* lines 376-377: trader_levels is None or a dict.
ResolveTraderLevels(opt) ==
  IF IsNone(opt) THEN DEFAULT_TRADER_LEVELS ELSE Val(opt)

InitPrice ==
  /\ cat = "basic"
  /\ req = DefaultRequest
  /\ pc = "price_call"
  /\ compatibility_map = None
  /\ feasibility_reasons = <<>>
  /\ solver_status = "NOT_RUN"
  /\ result = None
  /\ explore = None
  /\ server = None
  /\ \E offers \in OfferLists, price \in {0, 1500}, min_level_flea \in {0, 15},
        trader_levels \in {None, Some(AllTraders(1)), Some(AllTraders(3))},
        flea_available \in BOOLEAN, player_level \in {None, Some(10), Some(15)} :
       call = [stats |-> [PlainStats EXCEPT !.offers = offers,
                                            !.price = price,
                                            !.min_level_flea = min_level_flea],
               trader_levels |-> trader_levels,
               flea_available |-> flea_available,
               player_level |-> player_level,
               out |-> None]

\* lines 375-412
CallGetAvailablePrice ==
  /\ pc = "price_call"
  /\ call' = [call EXCEPT !.out =
                Some(get_available_price(call.stats,
                       ResolveTraderLevels(call.trader_levels),
                       call.flea_available, call.player_level))]
  /\ pc' = "price_done"
  /\ UNCHANGED <<cat, req, compatibility_map, feasibility_reasons,
                 solver_status, result, explore, server>>

NextPrice == CallGetAvailablePrice

SpecPrice == InitPrice /\ [][NextPrice]_vars

(***************************************************************************)
(* The server: concurrent requests for one weapon and one (language,       *)
(* game_mode).  The handlers are plain functions, which the framework runs *)
(* on worker threads; a thread can be switched out between any two of the  *)
(* steps below.  Objects are told apart by the thread that created them    *)
(* (0 for the data loaded at startup).                                     *)
(***************************************************************************)
\* The most requests in flight at once.
MaxRequests == 2

Threads == 1..MaxRequests

Endpoints == {"optimize", "explore", "mods"}

\* The data object a thread works on.
DataOf(p) == Val(server.th[p].current_state)

\* lifespan (main.py lines 95-113) has loaded ("en", mode) with an empty
\* compat_maps; any other language is loaded on demand.
InitServer ==
  /\ cat = "basic"
  /\ req = DefaultRequest
  /\ pc = "serving"
  /\ compatibility_map = None
  /\ feasibility_reasons = <<>>
  /\ solver_status = "NOT_RUN"
  /\ result = None
  /\ explore = None
  /\ call = None
  /\ \E lang \in {"en", "other"}, endpoints \in [Threads -> Endpoints] :
       server = [lang |-> lang,
                 data |-> IF lang = "en" THEN Some(0) ELSE None,
                 compat_maps |-> [d \in {0} \cup Threads |-> None],
                 builds |-> 0,
                 th |-> [p \in Threads |->
                           [endpoint |-> endpoints[p], pc |-> "get_state",
                            current_state |-> None, built |-> None,
                            compat_map |-> None]]]

\* get_state, lines 137-141: the key is loaded, or the load starts.
GetState(p) ==
  /\ server # None
  /\ server.th[p].pc = "get_state"
  /\ server' = IF ~IsNone(server.data)
               THEN [server EXCEPT !.th[p].current_state = server.data,
                                   !.th[p].pc = "check"]
               ELSE [server EXCEPT !.th[p].pc = "load"]
  /\ UNCHANGED <<cat, req, pc, compatibility_map, feasibility_reasons,
                 solver_status, result, explore, call>>

\* get_state, lines 143-155: the load succeeds and the thread stores and
\* returns its own data object, or it fails and the English data is used.
LoadData(p) ==
  /\ server # None
  /\ server.th[p].pc = "load"
  /\ \/ server' = [server EXCEPT !.data = Some(p),
                                 !.compat_maps[p] = None,
                                 !.th[p].current_state = Some(p),
                                 !.th[p].pc = "check"]
     \/ server' = [server EXCEPT !.th[p].current_state = Some(0),
                                 !.th[p].pc = "check"]
  /\ UNCHANGED <<cat, req, pc, compatibility_map, feasibility_reasons,
                 solver_status, result, explore, call>>

\* `if weapon_id not in compat_maps` (lines 203, 233, 282).
CheckCompatMaps(p) ==
  /\ server # None
  /\ server.th[p].pc = "check"
  /\ server' = [server EXCEPT !.th[p].pc =
                  IF IsNone(server.compat_maps[DataOf(p)]) THEN "build"
                  ELSE "read"]
  /\ UNCHANGED <<cat, req, pc, compatibility_map, feasibility_reasons,
                 solver_status, result, explore, call>>

\* The call of build_compatibility_map (lines 204, 235, 283): a new map.
BuildMap(p) ==
  /\ server # None
  /\ server.th[p].pc = "build"
  /\ server' = [server EXCEPT !.builds = @ + 1,
                              !.th[p].built = Some(p),
                              !.th[p].pc = "store"]
  /\ UNCHANGED <<cat, req, pc, compatibility_map, feasibility_reasons,
                 solver_status, result, explore, call>>

\* compat_maps[weapon_id] = <the map just built> (lines 204, 235, 283).
StoreMap(p) ==
  /\ server # None
  /\ server.th[p].pc = "store"
  /\ server' = [server EXCEPT !.compat_maps[DataOf(p)] = server.th[p].built,
                              !.th[p].pc = "read"]
  /\ UNCHANGED <<cat, req, pc, compatibility_map, feasibility_reasons,
                 solver_status, result, explore, call>>

\* compat_map = compat_maps[weapon_id] (lines 206, 237, 285): the map the
\* rest of the handler uses.
ReadMap(p) ==
  /\ server # None
  /\ server.th[p].pc = "read"
  /\ server' = [server EXCEPT !.th[p].compat_map = server.compat_maps[DataOf(p)],
                              !.th[p].pc = "done"]
  /\ UNCHANGED <<cat, req, pc, compatibility_map, feasibility_reasons,
                 solver_status, result, explore, call>>

NextServer ==
  \E p \in Threads :
    \/ GetState(p)
    \/ LoadData(p)
    \/ CheckCompatMaps(p)
    \/ BuildMap(p)
    \/ StoreMap(p)
    \/ ReadMap(p)

SpecServer == InitServer /\ [][NextServer]_vars


(***************************************************************************)
(* Properties of a result.                                                 *)
(***************************************************************************)
Ok == pc = "done" /\ result.status \in {"optimal", "feasible"}

Sel == result.selected_items

FinalStats == Val(result.final_stats)

Reachable == Range(compatibility_map.reachable_items)

SlotIds == DOMAIN compatibility_map.slot_items

OwnerOf(s) == compatibility_map.slot_owner[s]

AllowedIn(s) == Range(compatibility_map.slot_items[s])

\* C1: in every optimal or feasible result no two selected items i and j
\* are such that the conflict list of i contains j.
C1_ConflictRespect ==
  Ok => \A i \in Sel : \A j \in Sel : j \notin Range(L[i].conflicting_items)

\* A result that selects an item whose conflict list names a reachable,
\* not excluded item.
C1_Witness ==
  /\ Ok
  /\ \E i \in Sel : \E c \in Range(L[i].conflicting_items) :
        c \in Reachable /\ NotExcluded(L, req, c) /\ c \notin Sel

\* The flagged slots that have to be filled in a result: those of the
\* weapon and those of the selected items.
RequiredSlots ==
  {s \in SlotIds :
     /\ OwnerOf(s) = WeaponId \/ OwnerOf(s) \in Sel
     /\ \E k \in 1..Len(L[OwnerOf(s)].slots) :
          L[OwnerOf(s)].slots[k].id = s /\ L[OwnerOf(s)].slots[k].required}

\* The ways to put every selected item in exactly one slot that allows it
\* and whose owner is the weapon or a selected item.
Placements ==
  {f \in [Sel -> SlotIds] :
     \A i \in Sel : /\ i \in AllowedIn(f[i])
                    /\ (OwnerOf(f[i]) = WeaponId \/ OwnerOf(f[i]) \in Sel)}

\* C2: in every optimal or feasible result, with each selected item placed
\* in exactly one slot, every required slot of the weapon and of a selected
\* item holds exactly one selected item.
C2_RequiredSlotsFilled ==
  Ok => \E f \in Placements :
          \A s \in RequiredSlots : Cardinality({i \in Sel : f[i] = s}) = 1

\* C3: in every optimal or feasible result every id of include_items is
\* selected and no id of exclude_items is, whichever base is used.
C3_IncludeExclude ==
  Ok => /\ req.include_items \subseteq Sel
        /\ req.exclude_items \cap Sel = {}

\* The items the chosen preset contains (none for the naked weapon).
ChosenPresetItems ==
  IF IsNone(result.selected_preset) THEN {}
  ELSE Val(result.selected_preset).items

ChosenBasePrice ==
  IF ~IsNone(result.selected_preset) THEN Val(result.selected_preset).price
  ELSE IF ~IsNone(result.fallback_base) THEN 0
  ELSE L[WeaponId].stats.price

\* C4: total_price is the price of the chosen base plus the prices of the
\* selected items the chosen preset does not contain (each at the price the
\* request can buy it for).
C4_TotalPrice ==
  Ok => FinalStats.total_price =
          ChosenBasePrice
            + SumOver(Sel \ ChosenPresetItems,
                      [i \in DOMAIN L |-> ItemPrice(L, req, i).price])

\* C5: with max_price set, the reported total_price is at most max_price.
C5_Budget ==
  (Ok /\ ~IsNone(req.max_price)) =>
     FinalStats.total_price <= Val(req.max_price)

\* C6: with max_recoil_v set, the final vertical recoil
\* naked_recoil_v * (1 + sum of modifiers) is at most max_recoil_v.
C6_MaxRecoilV ==
  (Ok /\ ~IsNone(req.max_recoil_v)) =>
     FinalStats.recoil_vertical <= Val(req.max_recoil_v) * SCALE

\* C7: with min_ergonomics set, final_stats.ergonomics is at least
\* min_ergonomics.
C7_MinErgonomics ==
  (Ok /\ ~IsNone(req.min_ergonomics)) =>
     FinalStats.ergonomics >= Val(req.min_ergonomics) * ERGO_SCALE

\* C8: with max_weight set, final_stats.total_weight is at most max_weight,
\* also when no reachable item has a positive weight.
C8_MaxWeight ==
  (Ok /\ ~IsNone(req.max_weight)) =>
     FinalStats.total_weight <= Val(req.max_weight)

\* C9: every selected item has a slot that allows it and whose owner is the
\* weapon or another selected item.
C9_TreeReachability ==
  Ok => \A i \in Sel :
          \E s \in SlotIds :
            /\ i \in AllowedIn(s)
            /\ (OwnerOf(s) = WeaponId \/ (OwnerOf(s) \in Sel /\ OwnerOf(s) # i))

\* C10: no selected item belongs to a category of exclude_categories,
\* given by category id or by category name, whichever base is used.
C10_ExcludeCategories ==
  Ok => \A i \in Sel :
          /\ L[i].stats.category \notin req.exclude_categories
          /\ L[i].stats.category_id \notin req.exclude_categories

\* The causes the pre-check looks for, in the order it looks for them:
\* include_items that are not reachable, include_categories groups no
\* reachable item matches, no reachable magazine of the capacity, no
\* reachable sight of the range, the weight limit below the lightest build.
DetectedCauses ==
  LET reach == compatibility_map.reachable_items
  IN IncludeItemReasons(req, reach)
       \o IncludeCategoryReasons(L, req, reach)
       \o MagCapacityReasons(L, req, reach)
       \o SightingRangeReasons(L, L[WeaponId], req, reach)
       \o WeightReasons(L, L[WeaponId], req, reach)

\* C11: whenever the pre-check detects one or more causes the call ends
\* with status infeasible, the reason is exactly the detected causes in
\* check order (the code joins them with "; "), selected_items is empty,
\* selected_preset is null, objective_value is 0, and the solver is never
\* run.
C11_PreCheckInfeasible ==
  (pc \in {"solve", "done"} /\ DetectedCauses # <<>>) =>
     /\ pc = "done"
     /\ result.status = "infeasible"
     /\ result.reason = DetectedCauses
     /\ result.selected_items = {}
     /\ result.selected_preset = None
     /\ result.objective_value = 0
     /\ solver_status = "NOT_RUN"

\* A call the pre-check ended with two causes or more.
C11_Witness ==
  /\ pc = "done"
  /\ Len(DetectedCauses) >= 2
  /\ result.status = "infeasible"

\* include_items holds two reachable, individually purchasable items of
\* which one lists the other as conflicting.
ConflictingIncludes ==
  \E m1 \in req.include_items : \E m2 \in req.include_items :
     /\ m1 # m2
     /\ {m1, m2} \subseteq Reachable
     /\ ItemPrice(L, req, m1).available
     /\ ItemPrice(L, req, m2).available
     /\ m2 \in Range(L[m1].conflicting_items)

\* A reason one of whose causes is a conflict between items.
MentionsConflict(reason) ==
  \E k \in 1..Len(reason) : reason[k][1] = "conflict"

\* C12: when include_items holds two reachable, purchasable items M1 and
\* M2 and M1 lists M2 as conflicting, the result is infeasible and its
\* reason mentions the conflict.
C12_ConflictReason ==
  (pc = "done" /\ ConflictingIncludes) =>
     /\ result.status = "infeasible"
     /\ MentionsConflict(result.reason)

\* The result of a run that found no configuration.
NoValidConfiguration ==
  /\ result.status = "infeasible"
  /\ result.reason = <<<<"no_valid_configuration">>>>
  /\ result.selected_items = {}
  /\ result.selected_preset = None

\* The solver stopped at max_time_in_seconds: it reports FEASIBLE when it
\* holds a solution it could not prove optimal, UNKNOWN when it holds none.
TimeLimitReached == solver_status \in {"FEASIBLE", "UNKNOWN"}

ChosenBase ==
  IF IsNone(result.selected_preset) THEN "naked"
  ELSE Val(result.selected_preset).id

\* ergo_weight * capped_ergo - recoil_weight * total_recoil_mod
\* - price_weight * total_price, with capped_ergo in points, the recoil
\* modifier in thousandths and the price in roubles as the model charges it.
WeightedValue(b, X) ==
  req.ergo_weight * CappedErgo(Ctx, X)
    - req.recoil_weight * TotalRecoil(Ctx, X)
    - req.price_weight * ModelPrice(Ctx, b, X)

\* C14: in an optimal result no other base and item set that satisfies the
\* model constraints has a larger ergo_weight * capped_ergo - recoil_weight
\* * total_recoil_mod - price_weight * total_price; in particular with one
\* required slot offering M1 (+5 ergo, -0.10 recoil) and M2 (+10 ergo,
\* +0.05 recoil) and weights (1, 1, 0), M1 is selected.
C14_ObjectiveOptimal ==
  (pc = "done" /\ result.status = "optimal") =>
     /\ \A sol \in Solutions(Ctx) :
           WeightedValue(sol.base, sol.x) <= WeightedValue(ChosenBase, Sel)
     /\ (cat = "basic" /\ req = DefaultRequest) => ("A" \in Sel /\ "B" \notin Sel)

\* The results a run that ends OPTIMAL can return for the request at hand:
\* one per maximiser of the objective.
OptimalOutcomes ==
  {SuccessResult(Ctx, sol, "optimal") : sol \in Optimal(Ctx, Solutions(Ctx))}

\* C15: two runs on the same catalog, weapon and constraints give the same
\* status and the same final stats, also when several selections tie on
\* the objective.  Stated for the runs the solver ends OPTIMAL: every
\* result such a run can return has the status and the final stats of the
\* result at hand.
C15_Idempotent ==
  (pc = "done" /\ solver_status = "OPTIMAL") =>
     \A other \in OptimalOutcomes :
        /\ other.status = result.status
        /\ other.final_stats = result.final_stats

\* A preset has an offer that survives the trader levels and the flea
\* availability of the request.
HasSurvivingOffer(p) ==
  \E k \in 1..Len(p.offers) :
     OfferSurvives(p.offers[k], [min_level_flea |-> 0], req.trader_levels,
                   req.flea_available, req.player_level)

AllPresets == L[WeaponId].all_presets

NakedPurchasable == L[WeaponId].stats.price < UNPURCHASABLE_LIMIT

\* C16: a successful result has exactly one base: the naked weapon, with
\* selected_preset null, or exactly one preset of the weapon, whose id
\* selected_preset carries; a preset that is not the fallback is chosen
\* only if one of its offers survives the trader-level and flea rules.
C16_OneBase ==
  Ok =>
    IF IsNone(result.selected_preset)
    THEN \/ NakedPurchasable
         \/ /\ ~IsNone(result.fallback_base)
            /\ Val(result.fallback_base).type = "naked"
    ELSE LET id == Val(result.selected_preset).id
             named == {k \in 1..Len(AllPresets) : AllPresets[k].id = id}
         IN /\ Cardinality(named) = 1
            /\ IsNone(result.fallback_base) =>
                  \A k \in named : HasSurvivingOffer(AllPresets[k])

\* A result built on a purchasable preset while another listed preset has
\* no surviving offer.
C16_Witness ==
  /\ Ok
  /\ ~IsNone(result.selected_preset)
  /\ IsNone(result.fallback_base)
  /\ \E k \in 1..Len(AllPresets) :
        AllPresets[k].offers # <<>> /\ ~HasSurvivingOffer(AllPresets[k])

NoBasePurchasable ==
  /\ ~NakedPurchasable
  /\ \A k \in 1..Len(AllPresets) : ~HasSurvivingOffer(AllPresets[k])

\* C17: a successful result carries fallback_base exactly when no base is
\* purchasable; the base is then the first entry of the full preset list
\* at price 0, or the naked weapon at price 0 when the list is empty, and
\* total_price holds nothing for the base (it is the sum calculate_total_stats
\* makes over the selected items).
C17_FallbackBase ==
  Ok =>
    /\ ~IsNone(result.fallback_base) <=> NoBasePurchasable
    /\ NoBasePurchasable =>
          /\ IF AllPresets # <<>>
             THEN /\ Val(result.fallback_base) =
                       [type |-> "preset", id |-> AllPresets[1].id, price |-> 0]
                  /\ ~IsNone(result.selected_preset)
                  /\ Val(result.selected_preset).id = AllPresets[1].id
                  /\ Val(result.selected_preset).price = 0
             ELSE /\ Val(result.fallback_base).type = "naked"
                  /\ Val(result.fallback_base).price = 0
                  /\ IsNone(result.selected_preset)
          /\ FinalStats.total_price =
                SumOver(Sel, [i \in DOMAIN L |-> L[i].stats.price])

\* A result on the fallback preset of a weapon that lists several presets.
C17_Witness ==
  /\ Ok
  /\ ~IsNone(result.fallback_base)
  /\ Len(AllPresets) >= 2
  /\ Sel # {}

\* The reachable items whose capacity reaches min_mag_capacity.
BigMagazines ==
  {i \in Reachable : L[i].stats.capacity >= Val(req.min_mag_capacity)}

\* C18: with min_mag_capacity set, a successful result selects an item of
\* at least that capacity; when exactly one reachable magazine reaches the
\* threshold, that magazine is selected.
C18_MagCapacity ==
  (Ok /\ ~IsNone(req.min_mag_capacity)) =>
     /\ \E i \in Sel : L[i].stats.capacity >= Val(req.min_mag_capacity)
     /\ Cardinality(BigMagazines) = 1 => BigMagazines \subseteq Sel

\* Scenario E: a result under min_mag_capacity where a smaller magazine is
\* reachable too and one magazine only reaches the threshold.
C18_Witness ==
  /\ Ok
  /\ ~IsNone(req.min_mag_capacity)
  /\ Cardinality(BigMagazines) = 1
  /\ \E i \in Reachable : L[i].stats.capacity > 0 /\ i \notin BigMagazines

(***************************************************************************)
(* Properties of a returned frontier.                                      *)
(***************************************************************************)
Explored == pc = "explore_done"

Returned == Val(explore.returned)

\* The axis the sweep drives: ergonomics, or vertical recoil when the
\* ergonomics axis is the ignored one.
DrivenAxis(point) ==
  IF explore.ignore = "ergo" THEN point.recoil_v ELSE point.ergo

\* C19: the returned points, in the order returned after deduplication,
\* are non-decreasing on the driven axis; for ignore = price they are also
\* non-decreasing in price.
C19_ParetoMonotone ==
  Explored =>
    \A k \in 1..(Len(Returned) - 1) :
      /\ DrivenAxis(Returned[k]) <= DrivenAxis(Returned[k + 1])
      /\ explore.ignore = "price" =>
           Returned[k].price <= Returned[k + 1].price

\* The hard constraints of the request, read off a returned point: price,
\* ergonomics and recoil as the point reports them (recoil in tenths), the
\* weight and the categories from the catalog.
PointWithinConstraints(point) ==
  LET X == point.selected_items
      stats == calculate_total_stats(L[WeaponId].stats, X, L)
  IN /\ ~IsNone(req.max_price) => point.price <= Val(req.max_price)
     /\ ~IsNone(req.min_ergonomics) => point.ergo >= Val(req.min_ergonomics)
     /\ ~IsNone(req.max_recoil_v) =>
          point.recoil_v <= Val(req.max_recoil_v) * 10
     /\ ~IsNone(req.max_recoil_sum) =>
          point.recoil_v + point.recoil_h <= Val(req.max_recoil_sum) * 10
     /\ ~IsNone(req.max_weight) => stats.total_weight <= Val(req.max_weight)
     /\ req.include_items \subseteq X
     /\ \A k \in 1..Len(req.include_categories) :
          req.include_categories[k] # <<>> =>
            \E i \in X :
              L[i].stats.category_id \in Range(req.include_categories[k])
     /\ X \cap req.exclude_items = {}
     /\ \A i \in X :
          /\ L[i].stats.category_id \notin req.exclude_categories
          /\ L[i].stats.category \notin req.exclude_categories

\* Some configuration passes the pre-check and the constraints of the
\* model built for the request as the user sent it.
UserFeasible ==
  /\ check_constraints_feasibility(L, L[WeaponId], compatibility_map, req) = <<>>
  /\ Solutions(Ctx) # {}

\* C20: every returned frontier point satisfies every hard constraint the
\* user passed, and the frontier is empty when no configuration satisfies
\* them.
C20_FrontierWithinConstraints ==
  Explored =>
    /\ \A k \in 1..Len(Returned) : PointWithinConstraints(Returned[k])
    /\ ~UserFeasible => Returned = <<>>

\* C21: for ignore in {price, recoil}, the ergonomics target a sweep run
\* receives as min_ergonomics lies in [0, 100].
C21_TargetInRange ==
  (explore # None /\ explore.ignore \in {"price", "recoil"}
     /\ ~IsNone(explore.target)) =>
    /\ Val(explore.target).num >= 0
    /\ Val(explore.target).num <= 100

(***************************************************************************)
(* Properties of a compatibility map.                                      *)
(***************************************************************************)
Built == pc = "graph_done"

\* C22: the weapon is never a key of reachable_items, and no slot_items
\* list, of a weapon slot or of an item's slot, contains the slot's owner.
C22_NoSelfReference ==
  Built =>
    /\ WeaponId \notin Range(compatibility_map.reachable_items)
    /\ \A sl \in DOMAIN compatibility_map.slot_items :
         compatibility_map.slot_owner[sl]
           \notin Range(compatibility_map.slot_items[sl])

\* The raw allowedItems list of the slot sl in the lookup Lk.
RawAllowed(Lk, sl) ==
  LET owner == CHOOSE i \in DOMAIN Lk :
                 \E k \in 1..Len(Lk[i].slots) : Lk[i].slots[k].id = sl
      k == CHOOSE k \in 1..Len(Lk[owner].slots) : Lk[owner].slots[k].id = sl
  IN Lk[owner].slots[k].allowedItems

InLookup(Lk, list) == SelectSeq(list, LAMBDA a : a \in DOMAIN Lk)

\* The lookup ids some slot of i allows.
KnownChildren(Lk, i) ==
  UNION {{a \in Range(Lk[i].slots[k].allowedItems) : a \in DOMAIN Lk} :
           k \in 1..Len(Lk[i].slots)}

\* The ids reached from the set S along allowed-item edges.
RECURSIVE ReachClosure(_, _)
ReachClosure(Lk, S) ==
  LET next == S \cup UNION {KnownChildren(Lk, i) : i \in S}
  IN IF next = S THEN S ELSE ReachClosure(Lk, next)

\* C23 as stated: the keys of reachable_items are the lookup ids reached
\* from the weapon's top-level slots along allowed-item edges, item_to_slots
\* has the same keys, and every slot_items list is the raw allowed list
\* restricted to lookup ids, in the raw order.
C23_ExactReachability ==
  Built =>
    LET Lk == CallLookup
        reach == ReachClosure(Lk, KnownChildren(Lk, WeaponId))
    IN /\ Range(compatibility_map.reachable_items) = reach
       /\ DOMAIN compatibility_map.item_to_slots = reach
       /\ \A sl \in DOMAIN compatibility_map.slot_items :
            compatibility_map.slot_items[sl] = InLookup(Lk, RawAllowed(Lk, sl))

\* C23 amended: the chains start at the top-level entries other than the
\* weapon's own id, and a weapon slot's list omits the weapon's id unless
\* the weapon itself was reached as an item.
C23_ExactReachabilityAmended ==
  Built =>
    LET Lk == CallLookup
        reach == ReachClosure(Lk, KnownChildren(Lk, WeaponId) \ {WeaponId})
    IN /\ Range(compatibility_map.reachable_items) = reach
       /\ DOMAIN compatibility_map.item_to_slots = reach
       /\ \A sl \in DOMAIN compatibility_map.slot_items :
            compatibility_map.slot_items[sl] =
              IF compatibility_map.slot_owner[sl] = WeaponId
                   /\ WeaponId \notin reach
              THEN SelectSeq(InLookup(Lk, RawAllowed(Lk, sl)),
                             LAMBDA a : a # WeaponId)
              ELSE InLookup(Lk, RawAllowed(Lk, sl))

\* A map built from a graph with a cycle between A and B, an unknown id,
\* and the weapon listed in its own slot.
C23_Witness ==
  /\ Built
  /\ "B" \in Range(call.a) /\ "A" \in Range(call.b)
  /\ "Z" \in Range(call.w) \cup Range(call.a)
  /\ WeaponId \in Range(call.w)
  /\ {"A", "B"} \subseteq Range(compatibility_map.reachable_items)

\* No id appears twice among the items whose slots were scanned.
ExpandedOnce ==
  (pc \in {"graph_loop", "graph_done"}) =>
    LET expanded == Val(call.st).expanded
    IN \A i, j \in 1..Len(expanded) : expanded[i] = expanded[j] => i = j

\* C24: on every lookup, cyclic ones included, build_compatibility_map
\* returns, and no item is expanded more than once on the way.
C24_TerminatesExpandOnce == []ExpandedOnce /\ <>Built

\* A returned map of a graph where A and B allow each other and A is
\* enqueued twice by the weapon's slot.
C24_Witness ==
  /\ Built
  /\ "B" \in Range(call.a) /\ "A" \in Range(call.b)
  /\ call.w = <<"A", "A">>
  /\ Val(call.st).expanded = <<"A", "B">>

(***************************************************************************)
(* Properties of get_available_price.                                      *)
(***************************************************************************)
Priced == pc = "price_done"

\* The level the character has at the trader of an offer, 4 for a trader
\* the levels do not list.
LevelAt(o) ==
  LET levels == ResolveTraderLevels(call.trader_levels)
      vendor == Lower(o.vendor_normalized)
  IN IF vendor \in DOMAIN levels THEN levels[vendor] ELSE 4

FleaPermitted ==
  /\ call.flea_available
  /\ IsNone(call.player_level)
       \/ Val(call.player_level) >= call.stats.min_level_flea

\* The offers of the call that survive, by position.
Surviving ==
  {k \in 1..Len(call.stats.offers) :
     LET o == call.stats.offers[k]
     IN IF o.source = "fleaMarket" THEN FleaPermitted
        ELSE LevelAt(o) >= Val(o.trader_level)}

\* C25: with offers, the result is the cheapest surviving offer's price and
\* source, and unreachable iff none survives; with no offers and a positive
\* price it is that price iff flea is available and the level permits.
C25_CheapestSurvivingOffer ==
  Priced =>
    LET out == Val(call.out)
        offers == call.stats.offers
    IN IF offers # <<>>
       THEN /\ out.available <=> Surviving # {}
            /\ out.available =>
                 /\ \A k \in Surviving : out.price <= offers[k].price
                 /\ \E k \in Surviving : /\ offers[k].price = out.price
                                         /\ offers[k].source = out.source
       ELSE IF call.stats.price > 0
            THEN /\ out.available <=> FleaPermitted
                 /\ out.available => out.price = call.stats.price
            ELSE ~out.available

\* A call where a dearer trader offer precedes a cheaper flea offer, both
\* surviving, next to a player level that is set.
C25_Witness ==
  /\ Priced
  /\ Cardinality(Surviving) = 2
  /\ call.stats.offers[1].source # "fleaMarket"
  /\ call.stats.offers[2].source = "fleaMarket"
  /\ call.stats.offers[1].price > call.stats.offers[2].price
  /\ ~IsNone(call.player_level)
  /\ Val(call.out).price = call.stats.offers[2].price

(***************************************************************************)
(* Further properties of a result.                                         *)
(***************************************************************************)
\* The selected items no surviving offer sells on their own.
NotSoldAlone ==
  {i \in Sel : ~PriceOf(L[i].stats, req).available}

\* C26: a selected item without an individually available offer is
\* contained in the chosen preset; it is never selected with the naked
\* base or with a preset that does not contain it.
C26_PresetOnlyItems ==
  Ok => \A i \in NotSoldAlone :
          /\ ~IsNone(result.selected_preset)
          /\ i \in Val(result.selected_preset).items

\* A result on a purchasable preset that selects an item nobody sells
\* alone, another preset being on offer that lacks the item.
C26_Witness ==
  /\ Ok
  /\ NotSoldAlone # {}
  /\ IsNone(result.fallback_base)
  /\ \E p \in Range(AvailablePresets(L[WeaponId], req)) :
       \E i \in NotSoldAlone : i \notin Range(p.items)

\* C27: the selected items can each be put in exactly one slot of the map
\* that allows them, owned by the weapon or by a selected item, no slot
\* receiving more than one of them.
C27_SlotAssignment ==
  Ok => \E f \in Placements : \A i, j \in Sel : f[i] = f[j] => i = j

\* A result that selects an item with several slots to go to, next to
\* another selected item one of those slots allows as well.
C27_Witness ==
  /\ Ok
  /\ \E i \in Sel :
       /\ Cardinality({s \in SlotIds : i \in AllowedIn(s)}) >= 2
       /\ \E j \in Sel \ {i}, s \in SlotIds : {i, j} \subseteq AllowedIn(s)

(***************************************************************************)
(* Properties of the server.                                               *)
(***************************************************************************)
\* C28: whatever the interleaving of the requests, build_compatibility_map
\* runs at most once for the weapon, and the requests that have fetched
\* their map all hold the same map object.
C28_SingleFlight ==
  server # None =>
    /\ server.builds <= 1
    /\ \A p, q \in Threads :
         (server.th[p].pc = "done" /\ server.th[q].pc = "done")
           => server.th[p].compat_map = server.th[q].compat_map

(***************************************************************************)
(* Connection of the selected items to the weapon.                         *)
(***************************************************************************)
RECURSIVE ConnectedFrom(_, _)
\* The selected items that placement f ties to the weapon: those placed in
\* a slot of the weapon, then those placed in a slot of an item already
\* tied to it, and so on.
ConnectedFrom(f, S) ==
  LET T == S \cup {i \in Sel : OwnerOf(f[i]) = WeaponId \/ OwnerOf(f[i]) \in S}
  IN IF T = S THEN S ELSE ConnectedFrom(f, T)

\* C29: in every optimal or feasible result the selected items can be put
\* one per slot so that each of them hangs on the weapon through a chain of
\* selected items; no group of them holds only through slots its own
\* members own.
C29_ConnectedToBase ==
  Ok => \E f \in Placements : ConnectedFrom(f, {}) = Sel

(***************************************************************************)
(* The feasibility pre-check against the constraints themselves.           *)
(***************************************************************************)
\* The request ended at the pre-check (lines 575-589).
PreCheckRejected == pc = "done" /\ feasibility_reasons # <<>>

\* A base and items that satisfy every constraint of the request, the
\* weight limit taken on the weights as the catalog gives them.
SatisfyingChoices ==
  {sol \in Solutions(Ctx) :
     \/ IsNone(req.max_weight)
     \/ L[WeaponId].stats.weight
          + SumOver(sol.x, [i \in DOMAIN L |-> L[i].stats.weight])
            <= Val(req.max_weight)}

\* The orders the reachable items can come in.
ReachableOrders ==
  LET reach == compatibility_map.reachable_items
  IN {o \in [1..Len(reach) -> Range(reach)] :
        \A j, k \in 1..Len(reach) : o[j] = o[k] => j = k}

\* C30: the pre-check rejects a request only when no base and items satisfy
\* every constraint (a weapon within max_weight that needs no mod is not
\* rejected for the weight of its lightest mod), and whether it rejects
\* does not depend on the order of the reachable items.
C30_PreCheckSound ==
  pc = "done" =>
    /\ PreCheckRejected => SatisfyingChoices = {}
    /\ \A o \in ReachableOrders :
         (check_constraints_feasibility(L, L[WeaponId],
            [compatibility_map EXCEPT !.reachable_items = o], req) = <<>>)
           <=> ~PreCheckRejected
====
